---- MODULE Spec2Model ----
(***************************************************************************)
(* State-machine model of valkka/live/chain/multifork.py                   *)
(* (class MultiForkFilterchain): the reference-counted activation of the   *)
(* decode / analysis / sws / x-screen branches, the recording state, the   *)
(* shmem terminals and the view ports.                                     *)
(*                                                                         *)
(* The collaborators (AVThread, ForkFrameFilterN, GateFrameFilter,         *)
(* OpenGLThread, ValkkaFSManager) are represented by the part of their     *)
(* state the chain drives: output enabled, set of connected edge names,    *)
(* gate open, set of live tokens.  Every call the chain issues to them is  *)
(* appended to "calls", the log of the operation that ran last.            *)
(*                                                                         *)
(* Edge names ("analysis_" + str(slot), "openglthread_" + str(index),      *)
(* idst + "_" + str(n), "recorder_" + str(slot)) are pairs <<prefix, n>>.  *)
(***************************************************************************)
EXTENDS Integers, Sequences, FiniteSets, TLC

\* ---------------------------------------------------------------- bounds
NScreens == 1
NViewPorts == 2
MaxShmem == 2
MaxInc == 2
MaxCount == 8
MaxCtx == 5

\* --------------------------------------------------- program constants
Slot == 2

Screens == 0 .. (NScreens - 1)
ViewPorts == 1 .. NViewPorts
\* a renderer has a token for every view port that can be on it at a time
Tokens == 1 .. ((NViewPorts + NScreens - 1) \div NScreens)
RecIds == {1}
Managers == {1}
Callers == {"gui1", "gui2", "rec"}
RecordType == {"never", "movement", "always"}
ContextType == {"none", "live", "usb"}
Incs == (0 - MaxInc) .. MaxInc

VARIABLES
    decoding_client_count, movement_client_count, sws_client_count,
    x_screen_count,
    ports, tokens_by_port,
    shmem_terminals,
    record_type, id_rec, valkkafsmanager,
    closed,
    \* collaborators
    decoding,          \* avthread: decoding (output) switched on
    stop_requested,    \* avthread: requestStopCall has been issued
    fs_gate,           \* GateFrameFilter fs_gate passes frames
    sws_gate,          \* GateFrameFilter sws_gate passes frames
    decode_edges,      \* names connected on fork_filter_decode
    file_edges,        \* names connected on fork_filter_file
    sws_edges,         \* names connected on sws_fork_filter
    movement_callback, \* movement_filter has movement_cb installed
    gl_tokens,         \* per openglthread: tokens of live render contexts
    \* the source
    context_type,      \* "none", "live" or "usb"
    ctx,               \* the connection context made last, None before the first
    registered,        \* livethread: contexts registered
    playing,           \* livethread / usbdevicethread: contexts playing
    played,            \* contexts playStream has been issued for
    \* observation of the operation that ran last
    calls, lastOp,
    \* control state of the interleaved callers (concurrent specification)
    pc, loc

vars == << decoding_client_count, movement_client_count, sws_client_count,
           x_screen_count, ports, tokens_by_port, shmem_terminals,
           record_type, id_rec, valkkafsmanager, closed,
           decoding, stop_requested, fs_gate, sws_gate,
           decode_edges, file_edges, sws_edges, movement_callback, gl_tokens,
           context_type, ctx, registered, playing, played,
           calls, lastOp, pc, loc >>

\* ------------------------------------------------------------- helpers
NoArg == << "", 0 >>
None == << "None", 0 >>

\* ok: the call took effect, the collaborator was not yet in the state asked for
Call(obj, fn, arg, ok) == [obj |-> obj, fn |-> fn, arg |-> arg, ok |-> ok]

Op(name, arg, ret) == [op |-> name, arg |-> arg, ret |-> ret]

\* view_port.getXScreenNum(): a view port stays on the x-screen it was made for
getXScreenNum(vp) == vp % NScreens

\* the state of the chain and of its collaborators as one value
State ==
    [ decoding_client_count |-> decoding_client_count,
      movement_client_count |-> movement_client_count,
      sws_client_count |-> sws_client_count,
      x_screen_count |-> x_screen_count,
      ports |-> ports,
      tokens_by_port |-> tokens_by_port,
      shmem_terminals |-> shmem_terminals,
      record_type |-> record_type,
      id_rec |-> id_rec,
      valkkafsmanager |-> valkkafsmanager,
      closed |-> closed,
      decoding |-> decoding,
      stop_requested |-> stop_requested,
      fs_gate |-> fs_gate,
      sws_gate |-> sws_gate,
      decode_edges |-> decode_edges,
      file_edges |-> file_edges,
      sws_edges |-> sws_edges,
      movement_callback |-> movement_callback,
      gl_tokens |-> gl_tokens,
      context_type |-> context_type,
      ctx |-> ctx,
      registered |-> registered,
      playing |-> playing,
      played |-> played,
      calls |-> << >> ]

Commit(s) ==
    /\ decoding_client_count' = s.decoding_client_count
    /\ movement_client_count' = s.movement_client_count
    /\ sws_client_count' = s.sws_client_count
    /\ x_screen_count' = s.x_screen_count
    /\ ports' = s.ports
    /\ tokens_by_port' = s.tokens_by_port
    /\ shmem_terminals' = s.shmem_terminals
    /\ record_type' = s.record_type
    /\ id_rec' = s.id_rec
    /\ valkkafsmanager' = s.valkkafsmanager
    /\ closed' = s.closed
    /\ decoding' = s.decoding
    /\ stop_requested' = s.stop_requested
    /\ fs_gate' = s.fs_gate
    /\ sws_gate' = s.sws_gate
    /\ decode_edges' = s.decode_edges
    /\ file_edges' = s.file_edges
    /\ sws_edges' = s.sws_edges
    /\ movement_callback' = s.movement_callback
    /\ gl_tokens' = s.gl_tokens
    /\ context_type' = s.context_type
    /\ ctx' = s.ctx
    /\ registered' = s.registered
    /\ playing' = s.playing
    /\ played' = s.played
    /\ calls' = s.calls

Log(s, c) == [s EXCEPT !.calls = Append(@, c)]

\* ------------------------------------------------ collaborator calls
\* ForkFrameFilterN.connect(name, filter): a name can be connected once
ForkConnect(s, fork, name) ==
    IF fork = "fork_filter_decode"
    THEN [Log(s, Call(fork, "connect", name, name \notin s.decode_edges))
            EXCEPT !.decode_edges = @ \cup {name}]
    ELSE IF fork = "fork_filter_file"
    THEN [Log(s, Call(fork, "connect", name, name \notin s.file_edges))
            EXCEPT !.file_edges = @ \cup {name}]
    ELSE [Log(s, Call(fork, "connect", name, name \notin s.sws_edges))
            EXCEPT !.sws_edges = @ \cup {name}]

\* ForkFrameFilterN.disconnect(name)
ForkDisconnect(s, fork, name) ==
    IF fork = "fork_filter_decode"
    THEN [Log(s, Call(fork, "disconnect", name, name \in s.decode_edges))
            EXCEPT !.decode_edges = @ \ {name}]
    ELSE IF fork = "fork_filter_file"
    THEN [Log(s, Call(fork, "disconnect", name, name \in s.file_edges))
            EXCEPT !.file_edges = @ \ {name}]
    ELSE [Log(s, Call(fork, "disconnect", name, name \in s.sws_edges))
            EXCEPT !.sws_edges = @ \ {name}]

decodingOnCall(s) ==
    [Log(s, Call("avthread", "decodingOnCall", NoArg, ~s.decoding))
        EXCEPT !.decoding = TRUE]

decodingOffCall(s) ==
    [Log(s, Call("avthread", "decodingOffCall", NoArg, s.decoding))
        EXCEPT !.decoding = FALSE]

\* ------------------------------------------------------------ source
\* core.LiveConnectionContext() / core.USBCameraConnectionContext(): a new
\* object, distinct from every context made before
NewContext(s) == << "ctx", s.ctx[2] + 1 >>

createLiveContext(s) ==
    LET c == NewContext(s)
        s1 == [s EXCEPT !.ctx = c]
        s2 == [Log(s1, Call("livethread", "registerStream", c, c \notin s1.registered))
                 EXCEPT !.registered = @ \cup {c}]
    IN  [Log(s2, Call("livethread", "playStream", c, c \notin s2.playing))
           EXCEPT !.playing = @ \cup {c}, !.played = @ \cup {c}]

createUSBContext(s) ==
    LET c == NewContext(s)
        s1 == [s EXCEPT !.ctx = c]
    IN  [Log(s1, Call("usbdevicethread", "playStream", c, c \notin s1.playing))
           EXCEPT !.playing = @ \cup {c}, !.played = @ \cup {c}]

createContext(s) ==
    IF s.context_type = "live" THEN createLiveContext(s)
    ELSE IF s.context_type = "usb" THEN createUSBContext(s)
    ELSE s

\* mutant: stops and deregisters whatever the source is
closeContext_as_live(s) ==
    IF s.context_type \in {"live", "usb"}
    THEN LET s1 == [Log(s, Call("livethread", "stopStream", s.ctx,
                                s.ctx \in s.playing))
                      EXCEPT !.playing = @ \ {s.ctx}]
         IN  [Log(s1, Call("livethread", "deRegisterStream", s.ctx,
                           s.ctx \in s1.registered))
                EXCEPT !.registered = @ \ {s.ctx}]
    ELSE s

closeContext(s) ==
    IF s.context_type = "live"
    THEN LET s1 == [Log(s, Call("livethread", "stopStream", s.ctx,
                                s.ctx \in s.playing))
                      EXCEPT !.playing = @ \ {s.ctx}]
         IN  [Log(s1, Call("livethread", "deRegisterStream", s.ctx,
                           s.ctx \in s1.registered))
                EXCEPT !.registered = @ \ {s.ctx}]
    ELSE IF s.context_type = "usb"
    THEN [Log(s, Call("usbdevicethread", "stopStream", s.ctx,
                      s.ctx \in s.playing))
            EXCEPT !.playing = @ \ {s.ctx}]
    ELSE s

\* ------------------------------------------------- client calculators
\* mutant: stops decoding one client too late (tests the count against 0)
decoding_client_late_off(s, inc) ==
    LET s1 == IF s.decoding_client_count < 1 /\ inc > 0
              THEN decodingOnCall(s)
              ELSE IF s.decoding_client_count = 0 /\ inc < 0
              THEN decodingOffCall(s)
              ELSE s
    IN  [s1 EXCEPT !.decoding_client_count = @ + inc]

decoding_client(s, inc) ==
    LET s1 == IF s.decoding_client_count < 1 /\ inc > 0
              THEN decodingOnCall(s)
              ELSE IF s.decoding_client_count = 1 /\ inc < 0
              THEN decodingOffCall(s)
              ELSE s
    IN  [s1 EXCEPT !.decoding_client_count = @ + inc]

\* mutant: keeps the increment to itself
movement_client_no_forward(s, inc) ==
    LET edge == << "analysis", Slot >>
        s1 == IF s.movement_client_count < 1 /\ inc > 0
              THEN ForkConnect(s, "fork_filter_decode", edge)
              ELSE IF s.movement_client_count = 1 /\ inc < 0
              THEN ForkDisconnect(s, "fork_filter_decode", edge)
              ELSE s
    IN  [s1 EXCEPT !.movement_client_count = @ + inc]

movement_client(s, inc) ==
    LET edge == << "analysis", Slot >>
        s1 == IF s.movement_client_count < 1 /\ inc > 0
              THEN ForkConnect(s, "fork_filter_decode", edge)
              ELSE IF s.movement_client_count = 1 /\ inc < 0
              THEN ForkDisconnect(s, "fork_filter_decode", edge)
              ELSE s
        s2 == [s1 EXCEPT !.movement_client_count = @ + inc]
    IN  decoding_client(s2, inc)

\* mutant: closes the gate one client too late (tests the count against 0)
sws_client_late_unset(s, inc) ==
    LET s1 == IF s.sws_client_count < 1 /\ inc > 0
              THEN [Log(s, Call("sws_gate", "set", NoArg, ~s.sws_gate))
                      EXCEPT !.sws_gate = TRUE]
              ELSE IF s.sws_client_count = 0 /\ inc < 0
              THEN [Log(s, Call("sws_gate", "unSet", NoArg, s.sws_gate))
                      EXCEPT !.sws_gate = FALSE]
              ELSE s
        s2 == [s1 EXCEPT !.sws_client_count = @ + inc]
    IN  movement_client(s2, inc)

sws_client(s, inc) ==
    LET s1 == IF s.sws_client_count < 1 /\ inc > 0
              THEN [Log(s, Call("sws_gate", "set", NoArg, ~s.sws_gate))
                      EXCEPT !.sws_gate = TRUE]
              ELSE IF s.sws_client_count = 1 /\ inc < 0
              THEN [Log(s, Call("sws_gate", "unSet", NoArg, s.sws_gate))
                      EXCEPT !.sws_gate = FALSE]
              ELSE s
        s2 == [s1 EXCEPT !.sws_client_count = @ + inc]
    IN  movement_client(s2, inc)

\* mutant: counts a renderer as a client of the analysis branch
x_screen_client_via_movement(s, index, inc) ==
    LET edge == << "openglthread", index >>
        s1 == IF s.x_screen_count[index] < 1 /\ inc > 0
              THEN ForkConnect(s, "fork_filter_decode", edge)
              ELSE IF s.x_screen_count[index] = 1 /\ inc < 0
              THEN ForkDisconnect(s, "fork_filter_decode", edge)
              ELSE s
        s2 == [s1 EXCEPT !.x_screen_count[index] = @ + inc]
    IN  movement_client(s2, inc)

x_screen_client(s, index, inc) ==
    LET edge == << "openglthread", index >>
        s1 == IF s.x_screen_count[index] < 1 /\ inc > 0
              THEN ForkConnect(s, "fork_filter_decode", edge)
              ELSE IF s.x_screen_count[index] = 1 /\ inc < 0
              THEN ForkDisconnect(s, "fork_filter_decode", edge)
              ELSE s
        s2 == [s1 EXCEPT !.x_screen_count[index] = @ + inc]
    IN  decoding_client(s2, inc)


\* ------------------------------------------------- filesystem branch
\* a gate call that raised: it is made and has no effect
Raised == << "raised", 1 >>

\* mutant: the exception of the gate call leaves the callback
movement_cbRet_uncaught(s, started, raises) ==
    IF raises THEN Raised ELSE None

\* what movement_cb gives back to the detector thread that calls it: the
\* except clause prints and falls through, so None either way
movement_cbRet(s, started, raises) ==
    IF raises THEN None ELSE None

\* mutant: a stop event leaves the gate as it is
movement_cb_no_unset(s, started, raises) ==
    IF raises
    THEN Log(s, Call("fs_gate", IF started THEN "set" ELSE "unSet", Raised, FALSE))
    ELSE IF started
    THEN [Log(s, Call("fs_gate", "set", NoArg, ~s.fs_gate)) EXCEPT !.fs_gate = TRUE]
    ELSE Log(s, Call("fs_gate", "unSet", NoArg, FALSE))

\* movement_cb(tup): tup[0] = started; raises: the gate call throws
movement_cb(s, started, raises) ==
    IF raises
    THEN Log(s, Call("fs_gate", IF started THEN "set" ELSE "unSet", Raised, FALSE))
    ELSE IF started
    THEN [Log(s, Call("fs_gate", "set", NoArg, ~s.fs_gate)) EXCEPT !.fs_gate = TRUE]
    ELSE [Log(s, Call("fs_gate", "unSet", NoArg, s.fs_gate)) EXCEPT !.fs_gate = FALSE]

\* mutant: leaves the gate as the recording had it
clearRecording_no_unset(s) ==
    IF s.record_type = "never" THEN s
    ELSE IF s.valkkafsmanager = None THEN s
    ELSE
      LET s1 == IF s.record_type = "movement"
                THEN movement_client(s, -1)
                ELSE s
          s2 == Log(s1, Call("valkkafsmanager", "clearInput", << "slot", Slot >>, TRUE))
          s3 == ForkDisconnect(s2, "fork_filter_file", << "recorder", Slot >>)
      IN  [s3 EXCEPT !.record_type = "None", !.id_rec = None,
                     !.valkkafsmanager = None]

clearRecording(s) ==
    IF s.record_type = "never" THEN s
    ELSE IF s.valkkafsmanager = None THEN s
    ELSE
      LET s1 == IF s.record_type = "always"
                THEN [Log(s, Call("fs_gate", "unSet", NoArg, s.fs_gate))
                        EXCEPT !.fs_gate = FALSE]
                ELSE IF s.record_type = "movement"
                THEN movement_client(s, -1)
                ELSE s
          s2 == Log(s1, Call("valkkafsmanager", "clearInput", << "slot", Slot >>, TRUE))
          s3 == ForkDisconnect(s2, "fork_filter_file", << "recorder", Slot >>)
      IN  [s3 EXCEPT !.record_type = "None", !.id_rec = None,
                     !.valkkafsmanager = None]

\* mutant: attaches whatever record_type holds
setRecording_no_policy(s, id, rt, manager) ==
    LET s0 == IF s.valkkafsmanager # None THEN clearRecording(s) ELSE s
        s1 == [s0 EXCEPT !.record_type = rt, !.id_rec = << "id", id >>,
                         !.valkkafsmanager = << "manager", manager >>]
        s2 == ForkConnect(Log(s1, Call("valkkafsmanager", "getFrameFilter", NoArg, TRUE)),
                          "fork_filter_file", << "recorder", Slot >>)
        s3 == IF rt = "always"
              THEN [Log(s2, Call("fs_gate", "set", NoArg, ~s2.fs_gate))
                      EXCEPT !.fs_gate = TRUE]
              ELSE IF rt = "movement"
              THEN [Log(movement_client(s2, 1),
                        Call("movement_filter", "setCallback", NoArg, ~s2.movement_callback))
                      EXCEPT !.movement_callback = TRUE]
              ELSE s2
    IN  Log(s3, Call("valkkafsmanager", "setInput", << "id", id >>, TRUE))

\* mutant: attaches the new target on top of the one attached
setRecording_no_clear(s, id, rt, manager) ==
    IF s.record_type = "never" THEN s
    ELSE
      LET s1 == [s EXCEPT !.record_type = rt, !.id_rec = << "id", id >>,
                          !.valkkafsmanager = << "manager", manager >>]
          s2 == ForkConnect(Log(s1, Call("valkkafsmanager", "getFrameFilter", NoArg, TRUE)),
                            "fork_filter_file", << "recorder", Slot >>)
          s3 == IF rt = "always"
                THEN [Log(s2, Call("fs_gate", "set", NoArg, ~s2.fs_gate))
                        EXCEPT !.fs_gate = TRUE]
                ELSE IF rt = "movement"
                THEN [Log(movement_client(s2, 1),
                          Call("movement_filter", "setCallback", NoArg, ~s2.movement_callback))
                        EXCEPT !.movement_callback = TRUE]
                ELSE s2
      IN  Log(s3, Call("valkkafsmanager", "setInput", << "id", id >>, TRUE))

setRecording(s, id, rt, manager) ==
    IF s.record_type = "never" THEN s
    ELSE
      LET s0 == IF s.valkkafsmanager # None THEN clearRecording(s) ELSE s
          s1 == [s0 EXCEPT !.record_type = rt, !.id_rec = << "id", id >>,
                           !.valkkafsmanager = << "manager", manager >>]
          s2 == ForkConnect(Log(s1, Call("valkkafsmanager", "getFrameFilter", NoArg, TRUE)),
                            "fork_filter_file", << "recorder", Slot >>)
          s3 == IF rt = "always"
                THEN [Log(s2, Call("fs_gate", "set", NoArg, ~s2.fs_gate))
                        EXCEPT !.fs_gate = TRUE]
                ELSE IF rt = "movement"
                THEN [Log(movement_client(s2, 1),
                          Call("movement_filter", "setCallback", NoArg, ~s2.movement_callback))
                        EXCEPT !.movement_callback = TRUE]
                ELSE s2
      IN  Log(s3, Call("valkkafsmanager", "setInput", << "id", id >>, TRUE))

\* ------------------------------------------------------- shmem hooks
InSeq(x, seq) == \E i \in 1 .. Len(seq) : seq[i] = x

RECURSIVE Remove(_, _)
\* list.remove(x) / dict.pop(x): drops the first occurrence
Remove(seq, x) ==
    IF seq = << >> THEN << >>
    ELSE IF Head(seq) = x THEN Tail(seq)
    ELSE << Head(seq) >> \o Remove(Tail(seq), x)

\* shmem_name = self.idst + "_" + str(len(self.shmem_terminals))
shmem_name(s) == << "shmem", Len(s.shmem_terminals) >>

getShmem(s) ==
    LET name == shmem_name(s)
        s1 == [s EXCEPT !.shmem_terminals =
                  IF InSeq(name, @) THEN @ ELSE Append(@, name)]
        s2 == ForkConnect(s1, "sws_fork_filter", name)
    IN  sws_client(s2, 1)

\* mutant: forgets to give the sws client back
releaseShmem_no_dec(s, name) ==
    IF ~InSeq(name, s.shmem_terminals) THEN s
    ELSE
      LET s1 == [s EXCEPT !.shmem_terminals = Remove(@, name)]
      IN  ForkDisconnect(s1, "sws_fork_filter", name)

releaseShmem(s, name) ==
    IF ~InSeq(name, s.shmem_terminals) THEN s
    ELSE
      LET s1 == [s EXCEPT !.shmem_terminals = Remove(@, name)]
          s2 == ForkDisconnect(s1, "sws_fork_filter", name)
      IN  sws_client(s2, -1)

\* the value releaseShmem returns
releaseShmemRet(s, name) == InSeq(name, s.shmem_terminals)

RECURSIVE releaseEach(_, _)
releaseEach(s, keys) ==
    IF keys = << >> THEN s
    ELSE releaseEach(releaseShmem(s, Head(keys)), Tail(keys))

releaseAllShmem(s) == releaseEach(s, s.shmem_terminals)

\* ------------------------------------------------------- view ports
\* mutant: forgets to give the x-screen client back
delViewPort_no_dec(s, vp) ==
    IF ~InSeq(vp, s.ports) THEN s
    ELSE
      LET x_screen_num == getXScreenNum(vp)
          token == s.tokens_by_port[vp]
          s1 == [s EXCEPT !.ports = Remove(@, vp),
                          !.tokens_by_port =
                              [p \in (DOMAIN @) \ {vp} |-> @[p]]]
      IN  [Log(s1, Call("openglthread", "disconnect", << "token", token >>,
                        token \in s1.gl_tokens[x_screen_num]))
              EXCEPT !.gl_tokens[x_screen_num] = @ \ {token}]

delViewPort(s, vp) ==
    IF ~InSeq(vp, s.ports) THEN s
    ELSE
      LET x_screen_num == getXScreenNum(vp)
          token == s.tokens_by_port[vp]
          s1 == [s EXCEPT !.ports = Remove(@, vp),
                          !.tokens_by_port =
                              [p \in (DOMAIN @) \ {vp} |-> @[p]]]
          s2 == [Log(s1, Call("openglthread", "disconnect", << "token", token >>,
                              token \in s1.gl_tokens[x_screen_num]))
                    EXCEPT !.gl_tokens[x_screen_num] = @ \ {token}]
      IN  x_screen_client(s2, x_screen_num, -1)

\* what delViewPort returns: the bare return of the untracked case and the
\* fall through of the tracked case both give None
delViewPortRet(s, vp) ==
    IF ~InSeq(vp, s.ports) THEN None ELSE None

\* mutant: does not remove a view port that is tracked already
addViewPortPre_no_del(s, vp) ==
    x_screen_client(s, getXScreenNum(vp), 1)

\* the chain as addViewPort has it right before openglthread.connect
addViewPortPre(s, vp) ==
    LET s0 == IF InSeq(vp, s.ports) THEN delViewPort(s, vp) ELSE s
    IN  x_screen_client(s0, getXScreenNum(vp), 1)

\* token: the value openglthread.connect returns
addViewPort(s, vp, token) ==
    LET x_screen_num == getXScreenNum(vp)
        s1 == addViewPortPre(s, vp)
        s2 == [Log(s1, Call("openglthread", "connect", << "token", token >>,
                            token \notin s1.gl_tokens[x_screen_num]))
                 EXCEPT !.gl_tokens[x_screen_num] = @ \cup {token}]
    IN  [s2 EXCEPT !.tokens_by_port =
                      [p \in (DOMAIN @) \cup {vp} |-> IF p = vp THEN token ELSE @[p]],
                   !.ports = Append(@, vp)]

RECURSIVE delEach(_, _)
delEach(s, ps) ==
    IF ps = << >> THEN s
    ELSE delEach(delViewPort(s, Head(ps)), Tail(ps))

clearAllViewPorts(s) == delEach(s, s.ports)

\* ------------------------------------------------------------ close
\* mutant: tears the chain down on every call
requestClose_unguarded(s) ==
    LET s1 == clearAllViewPorts(releaseAllShmem(clearRecording(
                [Log(s, Call("avthread", "requestStopCall", NoArg, ~s.stop_requested))
                   EXCEPT !.stop_requested = TRUE])))
    IN  [s1 EXCEPT !.closed = TRUE]

requestClose(s) ==
    LET s1 == IF ~s.closed
              THEN clearAllViewPorts(releaseAllShmem(clearRecording(
                     [Log(s, Call("avthread", "requestStopCall", NoArg, ~s.stop_requested))
                        EXCEPT !.stop_requested = TRUE])))
              ELSE s
    IN  [s1 EXCEPT !.closed = TRUE]

\* -------------------------------------------------------------- Init
\* the source after __init__ of a chain of context type ct: createContext
\* has run once
ContextInit(ct) ==
    LET s == createContext([context_type |-> ct, ctx |-> None,
                            registered |-> {}, playing |-> {}, played |-> {},
                            calls |-> << >>])
    IN  /\ context_type = ct
        /\ ctx = s.ctx
        /\ registered = s.registered
        /\ playing = s.playing
        /\ played = s.played

\* the chain after __init__: initVars, the four make_*_branch, start
InitChain ==
    /\ decoding_client_count = 0
    /\ movement_client_count = 0
    /\ sws_client_count = 0
    /\ x_screen_count = [i \in Screens |-> 0]
    /\ ports = << >>
    /\ tokens_by_port = << >>
    /\ shmem_terminals = << >>
    /\ record_type = "None"
    /\ id_rec = None
    /\ valkkafsmanager = None
    /\ closed = FALSE
    /\ decoding = FALSE
    /\ stop_requested = FALSE
    /\ fs_gate = FALSE
    /\ sws_gate = FALSE
    /\ decode_edges = {}
    /\ file_edges = {}
    /\ sws_edges = {}
    /\ movement_callback = FALSE
    /\ gl_tokens = [i \in Screens |-> {}]
    /\ calls = << >>
    /\ lastOp = Op("init", NoArg, None)
    /\ pc = [t \in Callers |-> "idle"]
    /\ loc = [t \in Callers |->
                [inc |-> 0, act |-> "none", ret |-> "idle", after_clear |-> "idle",
                 rt |-> "None", held |-> FALSE]]

\* the chain as test1 builds it: a live source
Init == InitChain /\ ContextInit("live")

\* a chain of any context type
InitCtx == InitChain /\ \E ct \in ContextType : ContextInit(ct)

Bool(b) == << "bool", IF b THEN 1 ELSE 0 >>

\* ----------------------------------------------------------- actions
AddViewPort(vp) ==
    \E token \in Tokens :
        /\ token \notin addViewPortPre(State, vp).gl_tokens[getXScreenNum(vp)]
        /\ Commit(addViewPort(State, vp, token))
        /\ lastOp' = Op("addViewPort", << "vp", vp >>, None)
        /\ UNCHANGED << pc, loc >>

DelViewPort(vp) ==
    /\ Commit(delViewPort(State, vp))
    /\ lastOp' = Op("delViewPort", << "vp", vp >>, delViewPortRet(State, vp))
    /\ UNCHANGED << pc, loc >>

ClearAllViewPorts ==
    /\ Commit(clearAllViewPorts(State))
    /\ lastOp' = Op("clearAllViewPorts", NoArg, None)
    /\ UNCHANGED << pc, loc >>

\* at most MaxShmem sws clients are taken (bound of the model, not of the code)
GetShmem ==
    /\ sws_client_count < MaxShmem
    /\ Commit(getShmem(State))
    /\ lastOp' = Op("getShmem", NoArg, shmem_name(State))
    /\ UNCHANGED << pc, loc >>

ReleaseShmem(n) ==
    /\ Commit(releaseShmem(State, << "shmem", n >>))
    /\ lastOp' = Op("releaseShmem", << "shmem", n >>,
                    Bool(releaseShmemRet(State, << "shmem", n >>)))
    /\ UNCHANGED << pc, loc >>

ReleaseAllShmem ==
    /\ Commit(releaseAllShmem(State))
    /\ lastOp' = Op("releaseAllShmem", NoArg, None)
    /\ UNCHANGED << pc, loc >>

SetRecording(id, rt, manager) ==
    /\ Commit(setRecording(State, id, rt, manager))
    /\ lastOp' = Op("setRecording", << rt, id >>, None)
    /\ UNCHANGED << pc, loc >>

ClearRecording ==
    /\ Commit(clearRecording(State))
    /\ lastOp' = Op("clearRecording", NoArg, None)
    /\ UNCHANGED << pc, loc >>

\* the movement filter calls back while it has the callback and is fed frames
MovementCb(started) ==
    /\ movement_callback
    /\ << "analysis", Slot >> \in decode_edges
    /\ \E raises \in BOOLEAN :
          /\ Commit(movement_cb(State, started, raises))
          /\ lastOp' = Op("movement_cb", Bool(started),
                          movement_cbRet(State, started, raises))
    /\ UNCHANGED << pc, loc >>

RequestClose ==
    /\ Commit(requestClose(State))
    /\ lastOp' = Op("requestClose", NoArg, None)
    /\ UNCHANGED << pc, loc >>

Next ==
    \/ \E vp \in ViewPorts : AddViewPort(vp)
    \/ \E vp \in ViewPorts : DelViewPort(vp)
    \/ ClearAllViewPorts
    \/ GetShmem
    \/ \E n \in 0 .. MaxShmem : ReleaseShmem(n)
    \/ ReleaseAllShmem
    \/ \E id \in RecIds, rt \in RecordType, m \in Managers : SetRecording(id, rt, m)
    \/ ClearRecording
    \/ \E started \in BOOLEAN : MovementCb(started)
    \/ RequestClose

Spec == Init /\ [][Next]_vars

\* --------------------------------- decoding_client called on its own
DecodingClient(inc) ==
    /\ decoding_client_count + inc <= MaxCount
    /\ decoding_client_count + inc >= 0 - MaxCount
    /\ Commit(decoding_client(State, inc))
    /\ lastOp' = Op("decoding_client", << "inc", inc >>, None)
    /\ UNCHANGED << pc, loc >>

NextDec == \E inc \in Incs : DecodingClient(inc)

SpecDec == Init /\ [][NextDec]_vars


\* ------------------------------------------------ interleaved callers
\* The class takes no lock.  Callers gui1 and gui2 each run
\* x_screen_client(0, +1) and later x_screen_client(0, -1) (as addViewPort and
\* delViewPort of a view port of their own do); caller rec runs
\* setRecording(1, rt, 1) and later clearRecording(); the movement filter's
\* thread runs movement_cb.  A step is one statement: the test of a client
\* calculator, the collaborator call it decided on, the "+=" on the counter.
\* pc[t] is the statement caller t runs next, loc[t] its local values; calls
\* holds the call of the step that ran last.
Gui == {"gui1", "gui2"}

Step(t, label, s, nextpc, l) ==
    /\ Commit(s)
    /\ lastOp' = Op(label, << t, 0 >>, None)
    /\ pc' = [pc EXCEPT ![t] = nextpc]
    /\ loc' = [loc EXCEPT ![t] = l]

\* the branch a client calculator takes for count and inc
Branch(count, inc) ==
    IF count < 1 /\ inc > 0 THEN "on"
    ELSE IF count = 1 /\ inc < 0 THEN "off"
    ELSE "none"

GuiCall(t) ==
    /\ t \in Gui
    /\ pc[t] = "idle"
    /\ Step(t, "x_screen_client", State, "xs_test",
            [loc[t] EXCEPT !.inc = IF loc[t].held THEN -1 ELSE 1,
                           !.ret = "idle", !.held = ~loc[t].held])

\* line 489 / 492: the tests of x_screen_client
XsTest(t) ==
    /\ pc[t] = "xs_test"
    /\ LET b == Branch(x_screen_count[0], loc[t].inc)
       IN  Step(t, "xs_test", State, IF b = "none" THEN "xs_inc" ELSE "xs_act",
                [loc[t] EXCEPT !.act = b])

\* line 491 / 493
XsAct(t) ==
    /\ pc[t] = "xs_act"
    /\ Step(t, "xs_act",
            IF loc[t].act = "on"
            THEN ForkConnect(State, "fork_filter_decode", << "openglthread", 0 >>)
            ELSE ForkDisconnect(State, "fork_filter_decode", << "openglthread", 0 >>),
            "xs_inc", loc[t])

\* line 494, then the call of decoding_client at line 495
XsInc(t) ==
    /\ pc[t] = "xs_inc"
    /\ Step(t, "xs_inc",
            [State EXCEPT !.x_screen_count[0] = @ + loc[t].inc],
            "dc_test", loc[t])

\* line 443 / 447: the tests of decoding_client
DcTest(t) ==
    /\ pc[t] = "dc_test"
    /\ LET b == Branch(decoding_client_count, loc[t].inc)
       IN  Step(t, "dc_test", State, IF b = "none" THEN "dc_inc" ELSE "dc_act",
                [loc[t] EXCEPT !.act = b])

\* line 446 / 449
DcAct(t) ==
    /\ pc[t] = "dc_act"
    /\ Step(t, "dc_act",
            IF loc[t].act = "on" THEN decodingOnCall(State) ELSE decodingOffCall(State),
            "dc_inc", loc[t])

\* line 450, and the return to the caller's caller
DcInc(t) ==
    /\ pc[t] = "dc_inc"
    /\ Step(t, "dc_inc",
            [State EXCEPT !.decoding_client_count = @ + loc[t].inc],
            loc[t].ret, loc[t])

\* line 460 / 464: the tests of movement_client
McTest(t) ==
    /\ pc[t] = "mc_test"
    /\ LET b == Branch(movement_client_count, loc[t].inc)
       IN  Step(t, "mc_test", State, IF b = "none" THEN "mc_inc" ELSE "mc_act",
                [loc[t] EXCEPT !.act = b])

\* line 463 / 466
McAct(t) ==
    /\ pc[t] = "mc_act"
    /\ Step(t, "mc_act",
            IF loc[t].act = "on"
            THEN ForkConnect(State, "fork_filter_decode", << "analysis", Slot >>)
            ELSE ForkDisconnect(State, "fork_filter_decode", << "analysis", Slot >>),
            "mc_inc", loc[t])

\* line 467, then the call of decoding_client at line 468
McInc(t) ==
    /\ pc[t] = "mc_inc"
    /\ Step(t, "mc_inc",
            [State EXCEPT !.movement_client_count = @ + loc[t].inc],
            "dc_test", loc[t])

RecCall(t) ==
    /\ t = "rec"
    /\ pc[t] = "idle"
    /\ IF loc[t].held
       THEN Step(t, "clearRecording", State, "cr_test",
                 [loc[t] EXCEPT !.after_clear = "idle", !.held = FALSE])
       ELSE \E rt \in {"movement", "always"} :
                Step(t, "setRecording", State, "sr_test",
                     [loc[t] EXCEPT !.rt = rt, !.held = TRUE])

\* lines 246 - 251
SrTest(t) ==
    /\ pc[t] = "sr_test"
    /\ Step(t, "sr_test", State,
            IF record_type = "never" THEN "idle"
            ELSE IF valkkafsmanager # None THEN "cr_test"
            ELSE "sr_rt",
            [loc[t] EXCEPT !.after_clear = "sr_rt"])

\* line 253
SrRt(t) ==
    /\ pc[t] = "sr_rt"
    /\ Step(t, "sr_rt", [State EXCEPT !.record_type = loc[t].rt], "sr_id", loc[t])

\* line 254
SrId(t) ==
    /\ pc[t] = "sr_id"
    /\ Step(t, "sr_id", [State EXCEPT !.id_rec = << "id", 1 >>], "sr_mgr", loc[t])

\* line 255
SrMgr(t) ==
    /\ pc[t] = "sr_mgr"
    /\ Step(t, "sr_mgr", [State EXCEPT !.valkkafsmanager = << "manager", 1 >>],
            "sr_connect", loc[t])

\* line 257
SrConnect(t) ==
    /\ pc[t] = "sr_connect"
    /\ Step(t, "sr_connect", ForkConnect(State, "fork_filter_file", << "recorder", Slot >>),
            "sr_mode", loc[t])

\* lines 258 - 262
SrMode(t) ==
    /\ pc[t] = "sr_mode"
    /\ IF record_type = "always"
       THEN Step(t, "sr_mode",
                 [Log(State, Call("fs_gate", "set", NoArg, ~fs_gate)) EXCEPT !.fs_gate = TRUE],
                 "sr_input", loc[t])
       ELSE IF record_type = "movement"
       THEN Step(t, "sr_mode", State, "mc_test",
                 [loc[t] EXCEPT !.inc = 1, !.ret = "sr_setcb"])
       ELSE Step(t, "sr_mode", State, "sr_input", loc[t])

\* line 263
SrSetCb(t) ==
    /\ pc[t] = "sr_setcb"
    /\ Step(t, "sr_setcb",
            [Log(State, Call("movement_filter", "setCallback", NoArg, ~movement_callback))
                EXCEPT !.movement_callback = TRUE],
            "sr_input", loc[t])

\* line 264
SrInput(t) ==
    /\ pc[t] = "sr_input"
    /\ Step(t, "sr_input",
            Log(State, Call("valkkafsmanager", "setInput", << "id", 1 >>, TRUE)),
            "idle", loc[t])

\* lines 268 - 271
CrTest(t) ==
    /\ pc[t] = "cr_test"
    /\ Step(t, "cr_test", State,
            IF record_type = "never" \/ valkkafsmanager = None
            THEN loc[t].after_clear ELSE "cr_mode",
            loc[t])

\* lines 273 - 276
CrMode(t) ==
    /\ pc[t] = "cr_mode"
    /\ IF record_type = "always"
       THEN Step(t, "cr_mode",
                 [Log(State, Call("fs_gate", "unSet", NoArg, fs_gate)) EXCEPT !.fs_gate = FALSE],
                 "cr_input", loc[t])
       ELSE IF record_type = "movement"
       THEN Step(t, "cr_mode", State, "mc_test",
                 [loc[t] EXCEPT !.inc = -1, !.ret = "cr_input"])
       ELSE Step(t, "cr_mode", State, "cr_input", loc[t])

\* line 277
CrInput(t) ==
    /\ pc[t] = "cr_input"
    /\ Step(t, "cr_input",
            Log(State, Call("valkkafsmanager", "clearInput", << "slot", Slot >>, TRUE)),
            "cr_disconnect", loc[t])

\* line 278
CrDisconnect(t) ==
    /\ pc[t] = "cr_disconnect"
    /\ Step(t, "cr_disconnect",
            ForkDisconnect(State, "fork_filter_file", << "recorder", Slot >>),
            "cr_rt", loc[t])

\* line 280
CrRt(t) ==
    /\ pc[t] = "cr_rt"
    /\ Step(t, "cr_rt", [State EXCEPT !.record_type = "None"], "cr_id", loc[t])

\* line 281
CrId(t) ==
    /\ pc[t] = "cr_id"
    /\ Step(t, "cr_id", [State EXCEPT !.id_rec = None], "cr_mgr", loc[t])

\* line 282
CrMgr(t) ==
    /\ pc[t] = "cr_mgr"
    /\ Step(t, "cr_mgr", [State EXCEPT !.valkkafsmanager = None],
            loc[t].after_clear, loc[t])

\* movement_cb on the movement filter's thread: no lock, at any moment
MovementCbAsync(started) ==
    /\ movement_callback
    /\ << "analysis", Slot >> \in decode_edges
    /\ \E raises \in BOOLEAN :
          /\ Commit(movement_cb(State, started, raises))
          /\ lastOp' = Op("movement_cb", Bool(started),
                          movement_cbRet(State, started, raises))
    /\ UNCHANGED << pc, loc >>

NextConc ==
    \/ \E t \in Callers :
          \/ GuiCall(t) \/ XsTest(t) \/ XsAct(t) \/ XsInc(t)
          \/ DcTest(t) \/ DcAct(t) \/ DcInc(t)
          \/ McTest(t) \/ McAct(t) \/ McInc(t)
          \/ RecCall(t) \/ SrTest(t) \/ SrRt(t) \/ SrId(t) \/ SrMgr(t)
          \/ SrConnect(t) \/ SrMode(t) \/ SrSetCb(t) \/ SrInput(t)
          \/ CrTest(t) \/ CrMode(t) \/ CrInput(t) \/ CrDisconnect(t)
          \/ CrRt(t) \/ CrId(t) \/ CrMgr(t)
    \/ \E started \in BOOLEAN : MovementCbAsync(started)

SpecConc == Init /\ [][NextConc]_vars

\* ------------------------------ the source context operations alone
CreateContext ==
    /\ ctx[2] < MaxCtx
    /\ Commit(createContext(State))
    /\ lastOp' = Op("createContext", NoArg, None)
    /\ UNCHANGED << pc, loc >>

CloseContext ==
    /\ Commit(closeContext(State))
    /\ lastOp' = Op("closeContext", NoArg, None)
    /\ UNCHANGED << pc, loc >>

NextCtx == CreateContext \/ CloseContext

SpecCtx == InitCtx /\ [][NextCtx]_vars

\* ====================================================================
\*                               claims
\* ====================================================================
AnalysisEdge == << "analysis", Slot >>
RecorderEdge == << "recorder", Slot >>
GlEdge(i) == << "openglthread", i >>

\* how often the operation that ran last called fn on obj
NCalls(obj, fn) ==
    Cardinality({i \in 1 .. Len(calls) : calls[i].obj = obj /\ calls[i].fn = fn})

\* C1: for every sequence of decoding_client(inc) calls with arbitrary integer
\* inc, after each call decoding is on iff the running sum of the incs (which
\* decoding_client_count holds, line 450 adds every inc to it) is > 0, and
\* decodingOnCall / decodingOffCall is issued exactly once per crossing between
\* sum <= 0 and sum > 0 and never otherwise.
C1_DecodeFollowsRunningSum ==
    [][lastOp'.op = "decoding_client" =>
         /\ decoding' <=> (decoding_client_count' > 0)
         /\ NCalls("avthread", "decodingOnCall")' =
              (IF decoding_client_count <= 0 /\ decoding_client_count' > 0 THEN 1 ELSE 0)
         /\ NCalls("avthread", "decodingOffCall")' =
              (IF decoding_client_count > 0 /\ decoding_client_count' <= 0 THEN 1 ELSE 0)
      ]_vars

\* C2: all four counters are >= 0 and each stage is active iff its counter
\* is > 0: decoding on, analysis edge connected, sws_gate open, edge
\* openglthread_i connected.
C2_CountersAndStages ==
    /\ decoding_client_count >= 0
    /\ movement_client_count >= 0
    /\ sws_client_count >= 0
    /\ \A i \in Screens : x_screen_count[i] >= 0
    /\ decoding <=> (decoding_client_count > 0)
    /\ (AnalysisEdge \in decode_edges) <=> (movement_client_count > 0)
    /\ sws_gate <=> (sws_client_count > 0)
    /\ \A i \in Screens : (GlEdge(i) \in decode_edges) <=> (x_screen_count[i] > 0)

\* C2 witness: every stage is active, the analysis branch for two reasons
\* (a shmem reader and the recording), and a renderer serves two view ports.
C2_Witness ==
    /\ sws_client_count > 0
    /\ movement_client_count > sws_client_count
    /\ \E i \in Screens : x_screen_count[i] > 1
    /\ decoding

\* C3: the name getShmem returns is not the name of a reader tracked in
\* shmem_terminals at the moment of the call, and is not connected on
\* sws_fork_filter yet.
C3_ShmemNameIsFresh ==
    [][lastOp'.op = "getShmem" =>
         /\ ~InSeq(lastOp'.ret, shmem_terminals)
         /\ lastOp'.ret \notin sws_edges
      ]_vars

\* C4: whenever setRecording(id, movement, manager) has run, a motion-start
\* event and then clearRecording() leave movement_client_count at its value
\* before the setRecording call and fs_gate closed.
C4_ClearAfterMotionStart ==
    [][(/\ lastOp'.op = "setRecording"
        /\ lastOp'.arg[1] = "movement"
        /\ record_type' = "movement"
        /\ movement_callback'
        /\ AnalysisEdge \in decode_edges')
       => LET s2 == movement_cb(State', TRUE, FALSE)
              s3 == clearRecording(s2)
          IN  /\ s3.movement_client_count = movement_client_count
              /\ ~s3.fs_gate
      ]_vars

\* C5: once closed, addViewPort, getShmem and setRecording change nothing of
\* the counters, ports, tokens_by_port, shmem_terminals and the recording
\* state, and issue no connect call.
C5_NoAttachAfterClose ==
    [][(closed /\ lastOp'.op \in {"addViewPort", "getShmem", "setRecording"}) =>
         /\ UNCHANGED << decoding_client_count, movement_client_count,
                         sws_client_count, x_screen_count, ports, tokens_by_port,
                         shmem_terminals, record_type, id_rec, valkkafsmanager >>
         /\ \A i \in 1 .. Len(calls') : calls'[i].fn # "connect"
      ]_vars

\* C6: after requestClose has returned nothing is attached: no recorder edge
\* and no manager, no shmem terminal and no reader edge, no port and no token,
\* all counters 0, decoding off, analysis edge disconnected, sws_gate closed.
C6_NothingAttachedAfterClose ==
    lastOp.op = "requestClose" =>
        /\ RecorderEdge \notin file_edges
        /\ valkkafsmanager = None
        /\ shmem_terminals = << >>
        /\ sws_edges = {}
        /\ ports = << >>
        /\ DOMAIN tokens_by_port = {}
        /\ decoding_client_count = 0
        /\ movement_client_count = 0
        /\ sws_client_count = 0
        /\ \A i \in Screens : x_screen_count[i] = 0
        /\ ~decoding
        /\ AnalysisEdge \notin decode_edges
        /\ ~sws_gate

\* C7: with concurrent callers no 0->1 or 1->0 transition is applied twice or
\* missed: every activate / deactivate call finds its collaborator in the
\* other state, and when all callers have returned each counter is the sum of
\* the increments applied and each stage is active iff its counter is > 0.
C7_NoLostOrDoubleTransition ==
    /\ \A i \in 1 .. Len(calls) :
          calls[i].obj \in {"fork_filter_decode", "avthread"} => calls[i].ok
    /\ (\A t \in Callers : pc[t] = "idle") =>
          /\ x_screen_count[0] = Cardinality({t \in Gui : loc[t].held})
          /\ movement_client_count =
                (IF loc["rec"].held /\ loc["rec"].rt = "movement" THEN 1 ELSE 0)
          /\ decoding_client_count = x_screen_count[0] + movement_client_count
          /\ (GlEdge(0) \in decode_edges) <=> (x_screen_count[0] > 0)
          /\ (AnalysisEdge \in decode_edges) <=> (movement_client_count > 0)
          /\ decoding <=> (decoding_client_count > 0)

\* C8: a motion event never sets or unsets fs_gate between two steps of a
\* running setRecording or clearRecording.
C8_CallbackOutsideRecordingOps ==
    lastOp.op = "movement_cb" => pc["rec"] = "idle"

\* C9: releaseShmem(name) with an untracked name returns False, issues no call
\* and changes nothing; with a tracked name it returns True, issues exactly one
\* disconnect(name) on sws_fork_filter, drops the name from shmem_terminals and
\* applies sws_client(-1).
C9_ReleaseShmem ==
    [][lastOp'.op = "releaseShmem" =>
         IF ~InSeq(lastOp'.arg, shmem_terminals)
         THEN /\ lastOp'.ret = Bool(FALSE)
              /\ calls' = << >>
              /\ UNCHANGED << decoding_client_count, movement_client_count,
                              sws_client_count, x_screen_count, ports,
                              tokens_by_port, shmem_terminals, record_type,
                              id_rec, valkkafsmanager, closed, decoding,
                              stop_requested, fs_gate, sws_gate, decode_edges,
                              file_edges, sws_edges, movement_callback, gl_tokens >>
         ELSE /\ lastOp'.ret = Bool(TRUE)
              /\ NCalls("sws_fork_filter", "disconnect")' = 1
              /\ NCalls("sws_fork_filter", "connect")' = 0
              /\ \E i \in 1 .. Len(calls') :
                    /\ calls'[i].obj = "sws_fork_filter"
                    /\ calls'[i].arg = lastOp'.arg
              /\ ~InSeq(lastOp'.arg, shmem_terminals')
              /\ Len(shmem_terminals') = Len(shmem_terminals) - 1
              /\ sws_client_count' = sws_client_count - 1
              /\ movement_client_count' = movement_client_count - 1
              /\ decoding_client_count' = decoding_client_count - 1
              /\ sws_gate' <=> (sws_client_count' > 0)
      ]_vars

\* C9 witness: a tracked reader has been released while another one stays.
C9_Witness ==
    /\ lastOp.op = "releaseShmem"
    /\ lastOp.ret = Bool(TRUE)
    /\ shmem_terminals # << >>
    /\ NCalls("sws_fork_filter", "disconnect") = 1

\* C10: a view port is in ports iff it has an entry in tokens_by_port, and it
\* occurs in ports at most once.
C10_PortsMatchTokens ==
    \A vp \in ViewPorts :
        /\ InSeq(vp, ports) <=> (vp \in DOMAIN tokens_by_port)
        /\ Cardinality({i \in 1 .. Len(ports) : ports[i] = vp}) <= 1

\* C10 witness: addViewPort ran on a view port that was tracked already
\* (it issued the disconnect of the old token) and every view port is tracked.
C10_Witness ==
    /\ lastOp.op = "addViewPort"
    /\ NCalls("openglthread", "disconnect") = 1
    /\ Len(ports) = NViewPorts



\* the chain state without the call log
Chain(s) == [s EXCEPT !.calls = << >>]

\* C11: right after addViewPort(vp), a second addViewPort(vp) ends in the same
\* chain state as delViewPort(vp) followed by addViewPort(vp): vp is tracked
\* once, with the token the last connect returned, the token of the first call
\* has been passed to the renderer's disconnect, and x_screen_count of vp's
\* renderer and decoding_client_count are one higher than before the first
\* call (unchanged when vp was tracked before the first call already).
C11_AddTwiceIsMove ==
    [][lastOp'.op = "addViewPort" =>
         \A s1 \in {State'} :
         LET vp == lastOp'.arg[2]
             scr == getXScreenNum(vp)
             t1 == s1.tokens_by_port[vp]
             first == IF InSeq(vp, ports) THEN 0 ELSE 1
         IN  \A t2 \in Tokens \ (s1.gl_tokens[scr] \ {t1}) :
               \A s2 \in {addViewPort(s1, vp, t2)} :
                  /\ s2 = addViewPort(delViewPort(s1, vp), vp, t2)
                  /\ Chain(s2) =
                       [Chain(s1) EXCEPT
                          !.ports = Append(Remove(@, vp), vp),
                          !.tokens_by_port[vp] = t2,
                          !.gl_tokens[scr] = (@ \ {t1}) \cup {t2}]
                  /\ s2.calls[1] = Call("openglthread", "disconnect",
                                        << "token", t1 >>, TRUE)
                  /\ s2.x_screen_count[scr] = x_screen_count[scr] + first
                  /\ s2.decoding_client_count = decoding_client_count + first
      ]_vars

\* C11 witness: addViewPort has run on the only view port tracked, which it
\* found tracked already: one disconnect, one client on its renderer.
C11_Witness ==
    /\ lastOp.op = "addViewPort"
    /\ NCalls("openglthread", "disconnect") = 1
    /\ NCalls("openglthread", "connect") = 1
    /\ Len(ports) = 1
    /\ x_screen_count[getXScreenNum(ports[1])] = 1
    /\ decoding_client_count = 1


\* C12: delViewPort of a view port that is not tracked gives the caller an
\* outcome that differs from the outcome of a successful removal, changes no
\* state and makes no disconnect call.  (Violated: both cases return None.)
C12_UntrackedDelIsAnError ==
    [][lastOp'.op = "delViewPort" /\ ~InSeq(lastOp'.arg[2], ports) =>
          /\ lastOp'.ret # delViewPortRet(addViewPort(State, lastOp'.arg[2], 1),
                                          lastOp'.arg[2])
          /\ Chain(State') = Chain(State)
          /\ calls' = << >>
      ]_vars


\* the four client counters of a chain state
Counters(s) ==
    << s.decoding_client_count, s.movement_client_count,
       s.sws_client_count, s.x_screen_count >>

\* record_type, id_rec and valkkafsmanager are all None
Unset(s) ==
    /\ s.record_type = "None"
    /\ s.id_rec = None
    /\ s.valkkafsmanager = None

\* what C13 promises of the chain s2 reached by setRecording(always) and
\* clearRecording from the chain s0
AlwaysRoundTrip(s0, s2) ==
    /\ ~s2.fs_gate
    /\ Unset(s2)
    /\ RecorderEdge \notin s2.file_edges
    /\ Counters(s2) = Counters(s0)

\* C13 as stated: after any setRecording(id, always, manager), clearRecording
\* leaves fs_gate closed, the recording state unset, the recorder edge
\* disconnected and every counter at its value before the setRecording call.
C13_AlwaysThenClear ==
    [][lastOp'.op = "setRecording" /\ lastOp'.arg[1] = "always" =>
          AlwaysRoundTrip(State, clearRecording(State'))
      ]_vars

\* C13 amended: the same, for a setRecording(id, always, manager) made while
\* no recording is attached; and every clearRecording of an always recording
\* closes fs_gate, unsets the state, disconnects the recorder edge and
\* changes no counter.
C13_AlwaysThenClearFromUnset ==
    [][/\ (lastOp'.op = "setRecording" /\ lastOp'.arg[1] = "always"
             /\ valkkafsmanager = None) =>
            /\ record_type' = "always" /\ fs_gate'
            /\ RecorderEdge \in file_edges'
            /\ AlwaysRoundTrip(State, clearRecording(State'))
       /\ (lastOp'.op = "clearRecording" /\ record_type = "always") =>
            AlwaysRoundTrip(State, State')
      ]_vars

\* C13 witness: clearRecording has ended an always recording, closing the
\* gate the recording held open.
C13_Witness ==
    /\ lastOp.op = "clearRecording"
    /\ \E i \in 1 .. Len(calls) :
          calls[i].obj = "fs_gate" /\ calls[i].fn = "unSet" /\ calls[i].ok
    /\ NCalls("fork_filter_file", "disconnect") = 1
    /\ record_type = "None"
    /\ ~fs_gate


\* C14: after every clearRecording the recording state is unset (record_type,
\* id_rec and valkkafsmanager all None) and the recorder edge is not connected
\* on fork_filter_file, and the call does nothing only when no sink was
\* attached.  (Violated after setRecording(id, never, manager): the sink is
\* attached and clearRecording returns at once.)
C14_ClearRecordingUnsets ==
    [][lastOp'.op = "clearRecording" =>
          /\ Unset(State')
          /\ RecorderEdge \notin file_edges'
          /\ (calls' = << >> => valkkafsmanager = None)
      ]_vars


\* C15: whenever the recording state is not unset, the sink and the target id
\* are set; while record_type is always fs_gate is open, whatever motion
\* events arrive; while record_type is movement, movement_client_count is the
\* number of shmem clients plus the one unit of the recording.  (Violated:
\* the motion callback of an earlier movement recording stays installed and
\* a stop event closes the gate of an always recording.)
C15_GateAndCountFollowMode ==
    record_type # "None" =>
        /\ id_rec # None
        /\ valkkafsmanager # None
        /\ (record_type = "always" => fs_gate)
        /\ (record_type = "movement" =>
               movement_client_count = sws_client_count + 1)


MotionEventSetsGate ==
    (lastOp'.op = "movement_cb" /\ record_type = "movement"
       /\ calls'[1].arg # Raised) =>
         (fs_gate' <=> (lastOp'.arg = Bool(TRUE)))

\* clearRecording of a movement recording lowers movement_client_count by
\* one, disconnects the recorder edge and unsets the state
ClearMovementRecording(s, c) ==
    /\ c.movement_client_count = s.movement_client_count - 1
    /\ RecorderEdge \notin c.file_edges
    /\ Unset(c)

C18_RequestCloseIdempotent ==
    [][/\ closed => closed'
       /\ (lastOp'.op = "requestClose" /\ closed) =>
            /\ calls' = << >>
            /\ Chain(State') = Chain(State)
       /\ lastOp'.op = "requestClose" =>
            /\ closed'
            /\ requestClose(State') = Chain(State')
      ]_vars

\* C18 witness: requestClose has run on a chain that was closed already, with
\* the decoder's stop requested by the first call, and has made no call.
C18_Witness ==
    /\ lastOp.op = "requestClose"
    /\ closed
    /\ stop_requested
    /\ calls = << >>

\* C19: a setRecording made while record_type is never makes no call (no
\* connect, no gate call, no setInput) and changes nothing: gates, counters,
\* edges, record_type, id_rec and valkkafsmanager are as before.
C19_SetRecordingUnderNever ==
    [][(lastOp'.op = "setRecording" /\ record_type = "never") =>
          /\ calls' = << >>
          /\ Chain(State') = Chain(State)
      ]_vars

\* C19 witness: setRecording(id, always, manager) has been called on a chain
\* whose record_type is never, and has made no call.
C19_Witness ==
    /\ lastOp.op = "setRecording"
    /\ lastOp.arg[1] = "always"
    /\ record_type = "never"
    /\ calls = << >>

\* C20: when the gate call of movement_cb raises, the callback returns None
\* to the detector thread, and fs_gate, the counters, the recording state
\* and the rest of the chain are as before the callback.
C20_GateFailureIsCaught ==
    [][(lastOp'.op = "movement_cb" /\ calls'[1].arg = Raised) =>
          /\ lastOp'.ret = None
          /\ Chain(State') = Chain(State)
      ]_vars

\* C20 witness: during a movement recording with the gate open, the unSet of
\* a stop event has raised and the gate is still open.
C20_Witness ==
    /\ lastOp.op = "movement_cb"
    /\ calls = << Call("fs_gate", "unSet", Raised, FALSE) >>
    /\ record_type = "movement"
    /\ fs_gate


\* C21: in every reachable state sws_client_count is the number of readers
\* tracked in shmem_terminals, and sws_gate is open iff at least one reader
\* is tracked.  (Violated: after a release, getShmem hands out the name of a
\* reader that is still tracked, so the count rises and the number of
\* tracked readers does not.)
C21_SwsCountIsReaders ==
    /\ sws_client_count = Len(shmem_terminals)
    /\ sws_gate <=> (Len(shmem_terminals) >= 1)


\* how often the call log cs has a call of fn on obj
NCallsIn(cs, obj, fn) ==
    Cardinality({i \in 1 .. Len(cs) : cs[i].obj = obj /\ cs[i].fn = fn})

\* a layer whose count was n before the pair got on activate calls while the
\* count went up and off deactivate calls while it went down: one of each
\* when it was inactive, none when it was active
LayerCalls(n, on, off) ==
    IF n = 0 THEN on = 1 /\ off = 1 ELSE on = 0 /\ off = 0

\* C22: getShmem ends with sws_client(+1); running sws_client(-1) right after
\* it gives sws_gate, sws_client_count, movement_client_count,
\* decoding_client_count, the analysis edge and the decoder's output the
\* values they had before the sws_client(+1), and over the pair each of the
\* three layers (sws_gate, analysis edge, decoder) got exactly one activate
\* and one deactivate call when its count was 0 before, and no call when its
\* count was positive.  No counter is negative in a state the pair starts from.
C22_SwsClientPair ==
    [][lastOp'.op = "getShmem" =>
         \A s2 \in {sws_client(State', -1)} :
            /\ sws_client_count >= 0 /\ movement_client_count >= 0
            /\ decoding_client_count >= 0
            /\ sws_client_count' = sws_client_count + 1
            /\ s2.sws_gate = sws_gate
            /\ s2.sws_client_count = sws_client_count
            /\ s2.movement_client_count = movement_client_count
            /\ s2.decoding_client_count = decoding_client_count
            /\ (AnalysisEdge \in s2.decode_edges) = (AnalysisEdge \in decode_edges)
            /\ s2.decode_edges = decode_edges
            /\ s2.decoding = decoding
            /\ LayerCalls(sws_client_count,
                          NCallsIn(calls', "sws_gate", "set"),
                          NCallsIn(s2.calls, "sws_gate", "unSet"))
            /\ LayerCalls(movement_client_count,
                          NCallsIn(calls', "fork_filter_decode", "connect"),
                          NCallsIn(s2.calls, "fork_filter_decode", "disconnect"))
            /\ LayerCalls(decoding_client_count,
                          NCallsIn(calls', "avthread", "decodingOnCall"),
                          NCallsIn(s2.calls, "avthread", "decodingOffCall"))
            /\ NCallsIn(calls', "sws_gate", "unSet") = 0
            /\ NCallsIn(s2.calls, "sws_gate", "set") = 0
            /\ NCallsIn(calls', "fork_filter_decode", "disconnect") = 0
            /\ NCallsIn(s2.calls, "fork_filter_decode", "connect") = 0
            /\ NCallsIn(calls', "avthread", "decodingOffCall") = 0
            /\ NCallsIn(s2.calls, "avthread", "decodingOnCall") = 0
      ]_vars

\* C22 witness: getShmem has run sws_client(+1) on a chain whose sws layer was
\* inactive while the decoder was active already: the gate was set and the
\* analysis edge connected, and the decoder got no call.
C22_Witness ==
    /\ lastOp.op = "getShmem"
    /\ sws_client_count = 1
    /\ NCalls("sws_gate", "set") = 1
    /\ NCalls("fork_filter_decode", "connect") = 1
    /\ NCalls("avthread", "decodingOnCall") = 0
    /\ decoding_client_count > 1


RECURSIVE SumOver(_, _)
\* the sum of f[i] over the i of S
SumOver(f, S) ==
    IF S = {} THEN 0
    ELSE LET i == CHOOSE j \in S : TRUE
         IN  f[i] + SumOver(f, S \ {i})

\* C23: in every reachable state decoding_client_count is
\* movement_client_count plus the sum of x_screen_count over the renderers,
\* and movement_client_count is sws_client_count plus 1 when record_type is
\* movement with a sink attached, plus 0 otherwise.
C23_CounterChain ==
    /\ decoding_client_count =
         movement_client_count + SumOver(x_screen_count, Screens)
    /\ movement_client_count =
         sws_client_count
           + (IF record_type = "movement" /\ valkkafsmanager # None
              THEN 1 ELSE 0)

\* C23 witness: every term of the chain is positive: a movement recording, a
\* shmem reader and a view port are attached at once.
C23_Witness ==
    /\ record_type = "movement"
    /\ valkkafsmanager # None
    /\ sws_client_count >= 1
    /\ SumOver(x_screen_count, Screens) >= 1
    /\ decoding_client_count >= 3


\* what a view port operation leaves alone, and what a shmem operation
\* leaves alone
ViewPortFrame ==
    (lastOp'.op \in {"addViewPort", "delViewPort"}) =>
        /\ UNCHANGED << movement_client_count, sws_client_count, sws_gate,
                        fs_gate, shmem_terminals, record_type, id_rec,
                        valkkafsmanager >>
        /\ (AnalysisEdge \in decode_edges') = (AnalysisEdge \in decode_edges)

ShmemFrame ==
    (lastOp'.op \in {"getShmem", "releaseShmem"}) =>
        UNCHANGED << x_screen_count, ports, tokens_by_port, fs_gate,
                     record_type, id_rec, valkkafsmanager >>

\* C24 as stated: addViewPort and delViewPort leave movement_client_count,
\* sws_client_count, sws_gate, fs_gate, the analysis edge, shmem_terminals and
\* the recording state unchanged; getShmem and releaseShmem leave every
\* x_screen_count[i], ports, tokens_by_port, fs_gate and the recording state
\* unchanged; every setRecording(id, always, manager) and the clearRecording
\* after it leave the four counters unchanged.
C24_BranchesIndependent ==
    [][/\ ViewPortFrame
       /\ ShmemFrame
       /\ (lastOp'.op = "setRecording" /\ lastOp'.arg[1] = "always") =>
            /\ Counters(State') = Counters(State)
            /\ Counters(clearRecording(State')) = Counters(State)
      ]_vars

\* C24 amended: the same, with the four counters unchanged by a
\* setRecording(id, always, manager) made while no movement recording is
\* attached, by the clearRecording after it, and by every clearRecording of
\* an always recording.
C24_BranchesIndependentNoMovement ==
    [][/\ ViewPortFrame
       /\ ShmemFrame
       /\ (lastOp'.op = "setRecording" /\ lastOp'.arg[1] = "always"
             /\ record_type # "movement") =>
            /\ Counters(State') = Counters(State)
            /\ Counters(clearRecording(State')) = Counters(State)
       /\ (lastOp'.op = "clearRecording" /\ record_type = "always") =>
            Counters(State') = Counters(State)
      ]_vars

\* C24 witness: a view port has been attached, starting its renderer's edge,
\* while a shmem reader and an always recording are attached.
C24_Witness ==
    /\ lastOp.op = "addViewPort"
    /\ NCalls("fork_filter_decode", "connect") = 1
    /\ sws_client_count >= 1
    /\ record_type = "always"
    /\ fs_gate


\* the calls of a call log as (object, function, argument)
Issued(cs) == [i \in 1 .. Len(cs) |-> << cs[i].obj, cs[i].fn, cs[i].arg >>]

====
